---- MODULE Spec2Model ----
(***************************************************************************)
(* Model of main/station.c: an ESP32 station that keeps a Wi-Fi link and   *)
(* an MQTT session alive and publishes DHT22 readings.                     *)
(*                                                                         *)
(* Three FreeRTOS tasks share one event group (event_group_bits):          *)
(*   - the default event loop task, which runs event_handler for the       *)
(*     Wi-Fi / IP events that the network stack has posted to its queue;   *)
(*   - the MQTT client task, which runs the client library and calls       *)
(*     mqtt_event_handler synchronously for every MQTT event;              *)
(*   - DHT_task, the periodic read-and-publish loop.                       *)
(* app_main starts them.  Every statement that touches shared state is a   *)
(* separate step, because the tasks can be preempted between statements.   *)
(***************************************************************************)
EXTENDS Naturals, Sequences, FiniteSets

VARIABLES
    event_group_bits, \* the set of bits that are set in the event group
    linkStatus,    \* state of the Wi-Fi station behind sta_netif
    wifiQueue,     \* Wi-Fi / IP events posted to the default event loop
    wifiPc,        \* position of the event loop task inside event_handler
    connectReqs,   \* esp_wifi_connect() calls of the current event_handler run
    sessionStatus, \* state of the MQTT client behind mqtt_client
    mqttEv,        \* event->event_id of the current mqtt_event_handler run
    mqttPc,        \* position of the MQTT task inside mqtt_event_handler
    reconnectReqs, \* esp_mqtt_client_reconnect() calls of the current run
    closedLink,    \* link status when the current DISCONNECTED run began
    ipSinceClosed, \* a GOT_IP run has set the Wi-Fi bit since that run began
    dhtPc,         \* position of DHT_task
    readRet,       \* ret of the last readDHT() of DHT_task
    cyclePubs,     \* publish calls of DHT_task in its current cycle
    lastTopic,     \* topic of the last esp_mqtt_client_publish() call
    mainPc,        \* position of app_main
    failed,        \* a link or session failure has happened
    aborted,       \* ESP_ERROR_CHECK has called abort()
    sleptMs,       \* time DHT_task has slept since its last readDHT()
    established    \* an MQTT_EVENT_CONNECTED has been handled

vars == << event_group_bits, linkStatus, wifiQueue, wifiPc, connectReqs, sessionStatus,
           mqttEv, mqttPc, reconnectReqs, closedLink, ipSinceClosed, dhtPc,
           readRet, cyclePubs, lastTopic, mainPc, failed, aborted,
           sleptMs, established >>

wifiVars == << linkStatus, wifiQueue, wifiPc, connectReqs >>
mqttVars == << sessionStatus, mqttEv, mqttPc, reconnectReqs, closedLink,
               ipSinceClosed >>
dhtVars  == << dhtPc, readRet, cyclePubs >>

----------------------------------------------------------------------------
(* Constants of the program *)

WIFI_CONNECTED_BIT == 1
MQTT_CONNECTED_BIT == 2

MQTT_PUB_HUM  == "MQTT_PUB_HUM"
MQTT_PUB_TEMP == "MQTT_PUB_TEMP"
TOPIC_QOS0    == "/topic/qos0"

\* vTaskDelay(60000 / portTICK_PERIOD_MS) of DHT_task, in milliseconds
CYCLE_DELAY_MS == 60000

\* "wait at least 2 sec before reading again": the spacing the sensor needs
DHT_MIN_INTERVAL_MS == 2000

WifiEvents == { "WIFI_EVENT_STA_START", "WIFI_EVENT_STA_DISCONNECTED",
                "IP_EVENT_STA_GOT_IP" }

\* the events mqtt_event_handler only logs
MqttLoggedEvents == { "MQTT_EVENT_SUBSCRIBED", "MQTT_EVENT_UNSUBSCRIBED",
                      "MQTT_EVENT_PUBLISHED", "MQTT_EVENT_DATA",
                      "MQTT_EVENT_ERROR", "MQTT_EVENT_OTHER" }

MqttEvents == { "MQTT_EVENT_CONNECTED", "MQTT_EVENT_DISCONNECTED" }
                  \cup MqttLoggedEvents

DhtResults == { "DHT_OK", "DHT_CHECKSUM_ERROR", "DHT_TIMEOUT_ERROR" }

EspResults == { "ESP_OK", "ESP_FAIL" }

----------------------------------------------------------------------------
(* The event group *)

\* xEventGroupWaitBits(bit, pdFALSE, pdFALSE, portMAX_DELAY) at the call:
\* returns at once when the bit is set, blocks otherwise; never clears.
WaitBits(bit, passed, blocked) ==
    IF bit \in event_group_bits THEN passed ELSE blocked

\* xEventGroupSetBits unblocks, in the same critical section, every task
\* that is blocked waiting for the bit.
DhtAfterSet(bit) ==
    IF dhtPc = "blocked" /\ bit = MQTT_CONNECTED_BIT THEN "read" ELSE dhtPc

MqttAfterSet(bit) ==
    IF mqttPc = "disc_blocked" /\ bit = WIFI_CONNECTED_BIT
    THEN "disc_delay" ELSE mqttPc

\* esp_wifi_connect(): a station that is down starts to connect
esp_wifi_connect(s) == IF s = "Down" THEN "Connecting" ELSE s

----------------------------------------------------------------------------
Init ==
    /\ event_group_bits = {}
    /\ linkStatus = "Down"
    /\ wifiQueue = << >>
    /\ wifiPc = "idle"
    /\ connectReqs = 0
    /\ sessionStatus = "Closed"
    /\ mqttEv = "NONE"
    /\ mqttPc = "notstarted"
    /\ reconnectReqs = 0
    /\ closedLink = "none"
    /\ ipSinceClosed = FALSE
    /\ dhtPc = "notcreated"
    /\ readRet = "none"
    /\ cyclePubs = 0
    /\ lastTopic = "none"
    /\ mainPc = "wifi_init"
    /\ failed = FALSE
    /\ aborted = FALSE
    /\ sleptMs = 0
    /\ established = FALSE

----------------------------------------------------------------------------
(* app_main *)

\* wifi_init(): registers event_handler and starts the station; the
\* network stack posts WIFI_EVENT_STA_START.
wifi_init ==
    /\ ~aborted
    /\ mainPc = "wifi_init"
    /\ mainPc' = "mqtt_app_start"
    /\ wifiQueue' = Append(wifiQueue, "WIFI_EVENT_STA_START")
    /\ UNCHANGED << event_group_bits, linkStatus, wifiPc, connectReqs, mqttVars, dhtVars,
                    lastTopic, failed, aborted >>
    /\ UNCHANGED << sleptMs, established >>

\* mqtt_app_start(): esp_mqtt_client_start() creates the MQTT task, which
\* starts to establish the session without waiting for the Wi-Fi bit.
mqtt_app_start ==
    /\ ~aborted
    /\ mainPc = "mqtt_app_start"
    /\ mainPc' = "task_create"
    /\ sessionStatus' = "Connecting"
    /\ mqttPc' = "idle"
    /\ UNCHANGED << event_group_bits, wifiVars, mqttEv, reconnectReqs, closedLink,
                    ipSinceClosed, dhtVars, lastTopic, failed, aborted >>
    /\ UNCHANGED << sleptMs, established >>

\* xTaskCreate(&DHT_task, ...)
TaskCreate ==
    /\ ~aborted
    /\ mainPc = "task_create"
    /\ mainPc' = "done"
    /\ dhtPc' = "wait"
    /\ UNCHANGED << event_group_bits, wifiVars, mqttVars, readRet, cyclePubs, lastTopic,
                    failed, aborted >>
    /\ UNCHANGED << sleptMs, established >>

app_main == wifi_init \/ mqtt_app_start \/ TaskCreate

----------------------------------------------------------------------------
(* The network stack: it posts the events event_handler is registered for *)

\* the station got an address: the stack posts IP_EVENT_STA_GOT_IP
StackGotIp ==
    /\ ~aborted
    /\ linkStatus = "Connecting"
    /\ linkStatus' = "Up"
    /\ wifiQueue' = Append(wifiQueue, "IP_EVENT_STA_GOT_IP")
    /\ UNCHANGED << event_group_bits, wifiPc, connectReqs, mqttVars, dhtVars, lastTopic,
                    mainPc, failed, aborted >>
    /\ UNCHANGED << sleptMs, established >>

\* a connection attempt failed or the connection was lost: the stack posts
\* WIFI_EVENT_STA_DISCONNECTED
StackDisconnected ==
    /\ ~aborted
    /\ linkStatus \in { "Connecting", "Up" }
    /\ linkStatus' = "Down"
    /\ wifiQueue' = Append(wifiQueue, "WIFI_EVENT_STA_DISCONNECTED")
    /\ failed' = TRUE
    /\ UNCHANGED << event_group_bits, wifiPc, connectReqs, mqttVars, dhtVars, lastTopic,
                    mainPc, aborted >>
    /\ UNCHANGED << sleptMs, established >>

----------------------------------------------------------------------------
(* event_handler, run by the event loop task for the head of its queue *)

\* WIFI_EVENT_STA_START: esp_wifi_connect()
HandleStaStart ==
    /\ ~aborted
    /\ wifiPc = "idle"
    /\ wifiQueue # << >>
    /\ Head(wifiQueue) = "WIFI_EVENT_STA_START"
    /\ wifiQueue' = Tail(wifiQueue)
    /\ linkStatus' = esp_wifi_connect(linkStatus)
    /\ connectReqs' = 1
    /\ UNCHANGED << event_group_bits, wifiPc, mqttVars, dhtVars, lastTopic, mainPc,
                    failed, aborted >>
    /\ UNCHANGED << sleptMs, established >>

\* WIFI_EVENT_STA_DISCONNECTED without the esp_wifi_connect() call
HandleStaDisconnectedConnect_NoConnect ==
    /\ ~aborted
    /\ wifiPc = "idle"
    /\ wifiQueue # << >>
    /\ Head(wifiQueue) = "WIFI_EVENT_STA_DISCONNECTED"
    /\ wifiQueue' = Tail(wifiQueue)
    /\ connectReqs' = 0
    /\ wifiPc' = "disc_clear"
    /\ UNCHANGED << event_group_bits, linkStatus, mqttVars, dhtVars, lastTopic, mainPc,
                    failed, aborted >>
    /\ UNCHANGED << sleptMs, established >>

\* WIFI_EVENT_STA_DISCONNECTED, first statement: esp_wifi_connect()
HandleStaDisconnectedConnect ==
    /\ ~aborted
    /\ wifiPc = "idle"
    /\ wifiQueue # << >>
    /\ Head(wifiQueue) = "WIFI_EVENT_STA_DISCONNECTED"
    /\ wifiQueue' = Tail(wifiQueue)
    /\ linkStatus' = esp_wifi_connect(linkStatus)
    /\ connectReqs' = 1
    /\ wifiPc' = "disc_clear"
    /\ UNCHANGED << event_group_bits, mqttVars, dhtVars, lastTopic, mainPc, failed,
                    aborted >>
    /\ UNCHANGED << sleptMs, established >>

\* WIFI_EVENT_STA_DISCONNECTED clearing MQTT_CONNECTED_BIT instead of
\* WIFI_CONNECTED_BIT
HandleStaDisconnectedClear_WrongBit ==
    /\ ~aborted
    /\ wifiPc = "disc_clear"
    /\ event_group_bits' = event_group_bits \ { MQTT_CONNECTED_BIT }
    /\ wifiPc' = "idle"
    /\ UNCHANGED << linkStatus, wifiQueue, connectReqs, mqttVars, dhtVars,
                    lastTopic, mainPc, failed, aborted >>
    /\ UNCHANGED << sleptMs, established >>

\* WIFI_EVENT_STA_DISCONNECTED, second statement:
\* xEventGroupClearBits(event_group_bits, WIFI_CONNECTED_BIT)
HandleStaDisconnectedClear ==
    /\ ~aborted
    /\ wifiPc = "disc_clear"
    /\ event_group_bits' = event_group_bits \ { WIFI_CONNECTED_BIT }
    /\ wifiPc' = "idle"
    /\ UNCHANGED << linkStatus, wifiQueue, connectReqs, mqttVars, dhtVars,
                    lastTopic, mainPc, failed, aborted >>
    /\ UNCHANGED << sleptMs, established >>

\* IP_EVENT_STA_GOT_IP: xEventGroupSetBits(event_group_bits, WIFI_CONNECTED_BIT)
HandleGotIp ==
    /\ ~aborted
    /\ wifiPc = "idle"
    /\ wifiQueue # << >>
    /\ Head(wifiQueue) = "IP_EVENT_STA_GOT_IP"
    /\ wifiQueue' = Tail(wifiQueue)
    /\ connectReqs' = 0
    /\ event_group_bits' = event_group_bits \cup { WIFI_CONNECTED_BIT }
    /\ mqttPc' = MqttAfterSet(WIFI_CONNECTED_BIT)
    /\ dhtPc' = DhtAfterSet(WIFI_CONNECTED_BIT)
    /\ ipSinceClosed' = TRUE
    /\ UNCHANGED << linkStatus, wifiPc, sessionStatus, mqttEv, reconnectReqs,
                    closedLink, readRet, cyclePubs, lastTopic, mainPc, failed,
                    aborted >>
    /\ UNCHANGED << sleptMs, established >>

event_handler ==
    \/ HandleStaStart
    \/ HandleStaDisconnectedConnect
    \/ HandleStaDisconnectedClear
    \/ HandleGotIp

----------------------------------------------------------------------------
(* The MQTT client library, running in the MQTT task.  It changes the     *)
(* state of the client and then calls mqtt_event_handler in the same task; *)
(* while the handler runs the library makes no progress.                   *)

\* the transport completed the connection: MQTT_EVENT_CONNECTED
TransportEstablished ==
    /\ ~aborted
    /\ mqttPc = "idle"
    /\ sessionStatus = "Connecting"
    /\ linkStatus = "Up"
    /\ sessionStatus' = "Open"
    /\ mqttEv' = "MQTT_EVENT_CONNECTED"
    /\ mqttPc' = "connected_set"
    /\ reconnectReqs' = 0
    /\ UNCHANGED << event_group_bits, wifiVars, closedLink, ipSinceClosed, dhtVars,
                    lastTopic, mainPc, failed, aborted >>
    /\ UNCHANGED << sleptMs, established >>

\* the connection attempt failed or the session was lost:
\* MQTT_EVENT_DISCONNECTED, with the client waiting for a reconnect
TransportClosed ==
    /\ ~aborted
    /\ mqttPc = "idle"
    /\ sessionStatus \in { "Connecting", "Open" }
    /\ sessionStatus' = "Closed"
    /\ mqttEv' = "MQTT_EVENT_DISCONNECTED"
    /\ mqttPc' = "disc_clear"
    /\ reconnectReqs' = 0
    /\ closedLink' = linkStatus
    /\ ipSinceClosed' = FALSE
    /\ failed' = TRUE
    /\ UNCHANGED << event_group_bits, wifiVars, dhtVars, lastTopic, mainPc, aborted >>
    /\ UNCHANGED << sleptMs, established >>

\* any of the events the handler only logs
TransportLogged ==
    /\ ~aborted
    /\ mqttPc = "idle"
    /\ sessionStatus \in { "Connecting", "Open" }
    /\ \E ev \in MqttLoggedEvents : mqttEv' = ev
    /\ mqttPc' = "logged"
    /\ reconnectReqs' = 0
    /\ UNCHANGED << event_group_bits, wifiVars, sessionStatus, closedLink, ipSinceClosed,
                    dhtVars, lastTopic, mainPc, failed, aborted >>
    /\ UNCHANGED << sleptMs, established >>

----------------------------------------------------------------------------
(* mqtt_event_handler *)

\* MQTT_EVENT_CONNECTED setting WIFI_CONNECTED_BIT instead of
\* MQTT_CONNECTED_BIT
HandleMqttConnected_WrongBit ==
    /\ ~aborted
    /\ mqttPc = "connected_set"
    /\ event_group_bits' = event_group_bits \cup { WIFI_CONNECTED_BIT }
    /\ dhtPc' = DhtAfterSet(WIFI_CONNECTED_BIT)
    /\ mqttPc' = "idle"
    /\ UNCHANGED << wifiVars, sessionStatus, mqttEv, reconnectReqs, closedLink,
                    ipSinceClosed, readRet, cyclePubs, lastTopic, mainPc,
                    failed, aborted >>
    /\ established' = TRUE
    /\ UNCHANGED sleptMs

\* MQTT_EVENT_CONNECTED: xEventGroupSetBits(event_group_bits, MQTT_CONNECTED_BIT)
HandleMqttConnected ==
    /\ ~aborted
    /\ mqttPc = "connected_set"
    /\ event_group_bits' = event_group_bits \cup { MQTT_CONNECTED_BIT }
    /\ dhtPc' = DhtAfterSet(MQTT_CONNECTED_BIT)
    /\ mqttPc' = "idle"
    /\ UNCHANGED << wifiVars, sessionStatus, mqttEv, reconnectReqs, closedLink,
                    ipSinceClosed, readRet, cyclePubs, lastTopic, mainPc,
                    failed, aborted >>
    /\ established' = TRUE
    /\ UNCHANGED sleptMs

\* MQTT_EVENT_DISCONNECTED clearing WIFI_CONNECTED_BIT instead of
\* MQTT_CONNECTED_BIT
HandleMqttDisconnectedClear_WrongBit ==
    /\ ~aborted
    /\ mqttPc = "disc_clear"
    /\ event_group_bits' = event_group_bits \ { WIFI_CONNECTED_BIT }
    /\ mqttPc' = "disc_wait"
    /\ UNCHANGED << wifiVars, sessionStatus, mqttEv, reconnectReqs, closedLink,
                    ipSinceClosed, dhtVars, lastTopic, mainPc, failed,
                    aborted >>
    /\ UNCHANGED << sleptMs, established >>

\* MQTT_EVENT_DISCONNECTED: xEventGroupClearBits(.., MQTT_CONNECTED_BIT)
HandleMqttDisconnectedClear ==
    /\ ~aborted
    /\ mqttPc = "disc_clear"
    /\ event_group_bits' = event_group_bits \ { MQTT_CONNECTED_BIT }
    /\ mqttPc' = "disc_wait"
    /\ UNCHANGED << wifiVars, sessionStatus, mqttEv, reconnectReqs, closedLink,
                    ipSinceClosed, dhtVars, lastTopic, mainPc, failed,
                    aborted >>
    /\ UNCHANGED << sleptMs, established >>

\* MQTT_EVENT_DISCONNECTED waiting for MQTT_CONNECTED_BIT instead of
\* WIFI_CONNECTED_BIT
HandleMqttDisconnectedWait_WrongBit ==
    /\ ~aborted
    /\ mqttPc = "disc_wait"
    /\ mqttPc' = WaitBits(MQTT_CONNECTED_BIT, "disc_delay", "disc_blocked")
    /\ UNCHANGED << event_group_bits, wifiVars, sessionStatus, mqttEv, reconnectReqs,
                    closedLink, ipSinceClosed, dhtVars, lastTopic, mainPc,
                    failed, aborted >>
    /\ UNCHANGED << sleptMs, established >>

\* MQTT_EVENT_DISCONNECTED: xEventGroupWaitBits(.., WIFI_CONNECTED_BIT, ..)
HandleMqttDisconnectedWait ==
    /\ ~aborted
    /\ mqttPc = "disc_wait"
    /\ mqttPc' = WaitBits(WIFI_CONNECTED_BIT, "disc_delay", "disc_blocked")
    /\ UNCHANGED << event_group_bits, wifiVars, sessionStatus, mqttEv, reconnectReqs,
                    closedLink, ipSinceClosed, dhtVars, lastTopic, mainPc,
                    failed, aborted >>
    /\ UNCHANGED << sleptMs, established >>

\* MQTT_EVENT_DISCONNECTED: vTaskDelay(5000 / portTICK_PERIOD_MS) elapses
HandleMqttDisconnectedDelay ==
    /\ ~aborted
    /\ mqttPc = "disc_delay"
    /\ mqttPc' = "disc_reconnect"
    /\ UNCHANGED << event_group_bits, wifiVars, sessionStatus, mqttEv, reconnectReqs,
                    closedLink, ipSinceClosed, dhtVars, lastTopic, mainPc,
                    failed, aborted >>
    /\ UNCHANGED << sleptMs, established >>

\* MQTT_EVENT_DISCONNECTED: ESP_ERROR_CHECK(esp_mqtt_client_reconnect(client));
\* the client starts to connect again, or the call fails and
\* ESP_ERROR_CHECK aborts
HandleMqttDisconnectedReconnect ==
    /\ ~aborted
    /\ mqttPc = "disc_reconnect"
    /\ reconnectReqs' = reconnectReqs + 1
    /\ \E ret \in EspResults :
         IF ret = "ESP_OK"
         THEN /\ sessionStatus' = "Connecting"
              /\ mqttPc' = "idle"
              /\ aborted' = FALSE
         ELSE /\ sessionStatus' = sessionStatus
              /\ mqttPc' = "abort"
              /\ aborted' = TRUE
    /\ UNCHANGED << event_group_bits, wifiVars, mqttEv, closedLink, ipSinceClosed,
                    dhtVars, lastTopic, mainPc, failed >>
    /\ UNCHANGED << sleptMs, established >>

\* the logged cases without their break statements: control falls into the
\* MQTT_EVENT_DISCONNECTED case
HandleMqttLogged_FallThrough ==
    /\ ~aborted
    /\ mqttPc = "logged"
    /\ lastTopic' = IF mqttEv = "MQTT_EVENT_SUBSCRIBED"
                    THEN TOPIC_QOS0 ELSE lastTopic
    /\ event_group_bits' = event_group_bits \ { MQTT_CONNECTED_BIT }
    /\ mqttPc' = "disc_wait"
    /\ UNCHANGED << wifiVars, sessionStatus, mqttEv, reconnectReqs,
                    closedLink, ipSinceClosed, dhtVars, mainPc, failed,
                    aborted >>
    /\ UNCHANGED << sleptMs, established >>

\* SUBSCRIBED publishes "data" to /topic/qos0 and logs; UNSUBSCRIBED,
\* PUBLISHED, DATA, ERROR and the default case only log
HandleMqttLogged ==
    /\ ~aborted
    /\ mqttPc = "logged"
    /\ lastTopic' = IF mqttEv = "MQTT_EVENT_SUBSCRIBED"
                    THEN TOPIC_QOS0 ELSE lastTopic
    /\ mqttPc' = "idle"
    /\ UNCHANGED << event_group_bits, wifiVars, sessionStatus, mqttEv, reconnectReqs,
                    closedLink, ipSinceClosed, dhtVars, mainPc, failed,
                    aborted >>
    /\ UNCHANGED << sleptMs, established >>

mqtt_event_handler ==
    \/ HandleMqttConnected
    \/ HandleMqttDisconnectedClear
    \/ HandleMqttDisconnectedWait
    \/ HandleMqttDisconnectedDelay
    \/ HandleMqttDisconnectedReconnect
    \/ HandleMqttLogged

----------------------------------------------------------------------------
(* DHT_task *)

\* the wait of DHT_task with xClearOnExit = pdTRUE
DhtWait_ClearOnExit ==
    /\ ~aborted
    /\ dhtPc = "wait"
    /\ dhtPc' = WaitBits(MQTT_CONNECTED_BIT, "read", "blocked")
    /\ event_group_bits' = event_group_bits \ { MQTT_CONNECTED_BIT }
    /\ cyclePubs' = 0
    /\ UNCHANGED << wifiVars, mqttVars, readRet, lastTopic, mainPc,
                    failed, aborted >>
    /\ UNCHANGED << sleptMs, established >>

\* the wait of DHT_task waiting for WIFI_CONNECTED_BIT instead of
\* MQTT_CONNECTED_BIT
DhtWait_WrongBit ==
    /\ ~aborted
    /\ dhtPc = "wait"
    /\ dhtPc' = WaitBits(WIFI_CONNECTED_BIT, "read", "blocked")
    /\ cyclePubs' = 0
    /\ UNCHANGED << event_group_bits, wifiVars, mqttVars, readRet, lastTopic,
                    mainPc, failed, aborted >>
    /\ UNCHANGED << sleptMs, established >>

\* xEventGroupWaitBits(.., MQTT_CONNECTED_BIT, ..) at the top of the loop
DhtWait ==
    /\ ~aborted
    /\ dhtPc = "wait"
    /\ dhtPc' = WaitBits(MQTT_CONNECTED_BIT, "read", "blocked")
    /\ cyclePubs' = 0
    /\ UNCHANGED << event_group_bits, wifiVars, mqttVars, readRet, lastTopic, mainPc,
                    failed, aborted >>
    /\ UNCHANGED << sleptMs, established >>

\* int ret = readDHT();
DhtRead ==
    /\ ~aborted
    /\ dhtPc = "read"
    /\ \E r \in DhtResults : readRet' = r
    /\ dhtPc' = "error_handler"
    /\ UNCHANGED << event_group_bits, wifiVars, mqttVars, cyclePubs, lastTopic, mainPc,
                    failed, aborted >>
    /\ sleptMs' = 0
    /\ UNCHANGED established

\* errorHandler(ret): logs the classification of a failure and returns
DhtErrorHandler ==
    /\ ~aborted
    /\ dhtPc = "error_handler"
    /\ dhtPc' = "pub_hum"
    /\ UNCHANGED << event_group_bits, wifiVars, mqttVars, readRet, cyclePubs, lastTopic,
                    mainPc, failed, aborted >>
    /\ UNCHANGED << sleptMs, established >>

\* esp_mqtt_client_publish(mqtt_client, MQTT_PUB_HUM, hum, 0, 1, 0)
DhtPublishHum ==
    /\ ~aborted
    /\ dhtPc = "pub_hum"
    /\ lastTopic' = MQTT_PUB_HUM
    /\ cyclePubs' = cyclePubs + 1
    /\ dhtPc' = "pub_temp"
    /\ UNCHANGED << event_group_bits, wifiVars, mqttVars, readRet, mainPc, failed,
                    aborted >>
    /\ UNCHANGED << sleptMs, established >>

\* esp_mqtt_client_publish(mqtt_client, MQTT_PUB_TEMP, temp, 0, 1, 0)
DhtPublishTemp ==
    /\ ~aborted
    /\ dhtPc = "pub_temp"
    /\ lastTopic' = MQTT_PUB_TEMP
    /\ cyclePubs' = cyclePubs + 1
    /\ dhtPc' = "sleep"
    /\ UNCHANGED << event_group_bits, wifiVars, mqttVars, readRet, mainPc, failed,
                    aborted >>
    /\ UNCHANGED << sleptMs, established >>

\* the sleep of DHT_task with the 1000 ms delay of app_main
DhtSleep_ShortDelay ==
    /\ ~aborted
    /\ dhtPc = "sleep"
    /\ dhtPc' = "wait"
    /\ UNCHANGED << event_group_bits, wifiVars, mqttVars, readRet, cyclePubs,
                    lastTopic, mainPc, failed, aborted >>
    /\ sleptMs' = sleptMs + 1000
    /\ UNCHANGED established

\* vTaskDelay(60000 / portTICK_PERIOD_MS) elapses
DhtSleep ==
    /\ ~aborted
    /\ dhtPc = "sleep"
    /\ dhtPc' = "wait"
    /\ UNCHANGED << event_group_bits, wifiVars, mqttVars, readRet, cyclePubs, lastTopic,
                    mainPc, failed, aborted >>
    /\ sleptMs' = sleptMs + CYCLE_DELAY_MS
    /\ UNCHANGED established

DHT_task ==
    \/ DhtWait
    \/ DhtRead
    \/ DhtErrorHandler
    \/ DhtPublishHum
    \/ DhtPublishTemp
    \/ DhtSleep

----------------------------------------------------------------------------
Next ==
    \/ wifi_init
    \/ mqtt_app_start
    \/ TaskCreate
    \/ StackGotIp
    \/ StackDisconnected
    \/ HandleStaStart
    \/ HandleStaDisconnectedConnect
    \/ HandleStaDisconnectedClear
    \/ HandleGotIp
    \/ TransportEstablished
    \/ TransportClosed
    \/ TransportLogged
    \/ HandleMqttConnected
    \/ HandleMqttDisconnectedClear
    \/ HandleMqttDisconnectedWait
    \/ HandleMqttDisconnectedDelay
    \/ HandleMqttDisconnectedReconnect
    \/ HandleMqttLogged
    \/ DhtWait
    \/ DhtRead
    \/ DhtErrorHandler
    \/ DhtPublishHum
    \/ DhtPublishTemp
    \/ DhtSleep

Spec == Init /\ [][Next]_vars

\* The FreeRTOS scheduler runs every task that is ready: each handler and
\* task step that stays enabled is eventually taken.  The network stack
\* and the transport are under no obligation.
LiveSpec ==
    /\ Init /\ [][Next]_vars
    /\ WF_vars(app_main)
    /\ WF_vars(event_handler)
    /\ WF_vars(mqtt_event_handler)
    /\ WF_vars(DHT_task)

----------------------------------------------------------------------------
TypeOK ==
    /\ event_group_bits \subseteq { WIFI_CONNECTED_BIT, MQTT_CONNECTED_BIT }
    /\ linkStatus \in { "Down", "Connecting", "Up" }
    /\ wifiQueue \in Seq(WifiEvents) /\ Len(wifiQueue) <= 2
    /\ wifiPc \in { "idle", "disc_clear" }
    /\ connectReqs \in 0..1
    /\ sessionStatus \in { "Closed", "Connecting", "Open" }
    /\ mqttEv \in MqttEvents \cup { "NONE" }
    /\ mqttPc \in { "notstarted", "idle", "connected_set", "disc_clear",
                    "disc_wait", "disc_blocked", "disc_delay",
                    "disc_reconnect", "logged", "abort" }
    /\ reconnectReqs \in 0..1
    /\ closedLink \in { "none", "Down", "Connecting", "Up" }
    /\ ipSinceClosed \in BOOLEAN
    /\ dhtPc \in { "notcreated", "wait", "blocked", "read", "error_handler",
                   "pub_hum", "pub_temp", "sleep" }
    /\ readRet \in DhtResults \cup { "none" }
    /\ cyclePubs \in 0..2
    /\ lastTopic \in { "none", MQTT_PUB_HUM, MQTT_PUB_TEMP, TOPIC_QOS0 }
    /\ mainPc \in { "wifi_init", "mqtt_app_start", "task_create", "done" }
    /\ failed \in BOOLEAN
    /\ aborted \in BOOLEAN
    /\ sleptMs \in { 0, CYCLE_DELAY_MS }
    /\ established \in BOOLEAN

----------------------------------------------------------------------------
(* Steps named by the properties below *)

\* DHT_task executes one of its two esp_mqtt_client_publish() calls
DhtPublishStep == dhtPc \in { "pub_hum", "pub_temp" } /\ dhtPc' # dhtPc

\* event_handler takes the given event from the queue and handles it
WifiHandles(ev) ==
    /\ wifiPc = "idle"
    /\ wifiQueue # << >>
    /\ Head(wifiQueue) = ev
    /\ wifiQueue' = Tail(wifiQueue)

LinkUp    == WIFI_CONNECTED_BIT \in event_group_bits
SessionUp == MQTT_CONNECTED_BIT \in event_group_bits

----------------------------------------------------------------------------
\* C1: the publish task never calls publish in a state where the SessionUp
\* flag (MQTT_CONNECTED_BIT) is clear, in any interleaving with the two
\* handlers, including between its wait returning and each publish call.
C1_PublishOnlyWhileSessionUp == [][DhtPublishStep => SessionUp]_vars

\* C2: the step that clears LinkUp after a link loss leaves the session
\* Closed and SessionUp clear, so SessionUp is never set while LinkUp has
\* been cleared.
C2_LinkLossClosesSession ==
    [][(LinkUp /\ ~LinkUp') => (~SessionUp' /\ sessionStatus' = "Closed")]_vars

\* C3: in every reachable state SessionUp is set iff the session is Open
\* and LinkUp is set iff the link is Up.
C3_FlagsMatchStatus ==
    /\ SessionUp <=> sessionStatus = "Open"
    /\ LinkUp <=> linkStatus = "Up"

\* C4: in a cycle whose sensor read failed the publish task makes no
\* publish call.
C4_NoPublishAfterFailedRead ==
    (dhtPc \in { "error_handler", "pub_hum", "pub_temp", "sleep" }
        /\ readRet # "DHT_OK") => cyclePubs = 0

\* C5: when a session closed event is handled while the link is Down, the
\* reconnect request is issued only after a subsequent address-acquired
\* notification has set LinkUp.
C5_ReconnectAfterAddressAcquired ==
    (mqttEv = "MQTT_EVENT_DISCONNECTED" /\ closedLink = "Down"
        /\ reconnectReqs > 0) => ipSinceClosed

\* C6: an address-acquired notification handled while the link is Down (no
\* connect request outstanding, link not Connecting) does not set LinkUp
\* and does not move the link to Up.
C6_GotIpIgnoredWhenDown ==
    [][(WifiHandles("IP_EVENT_STA_GOT_IP") /\ linkStatus = "Down")
          => (event_group_bits' = event_group_bits /\ linkStatus' = "Down")]_vars

\* C7 as stated: a disconnected notification handled while the link is
\* already Down with LinkUp clear leaves the link Down and the flag clear
\* and issues no connect request.
C7_NoConnectWhenAlreadyDown ==
    [][(WifiHandles("WIFI_EVENT_STA_DISCONNECTED") /\ linkStatus = "Down"
            /\ ~LinkUp)
          => (connectReqs' = 0 /\ linkStatus' = "Down" /\ ~LinkUp')]_vars

\* C7 as amended: a disconnected notification handled while the link is
\* already Down with LinkUp clear leaves LinkUp clear until the handler
\* returns and issues exactly one connect request (one per notification),
\* which takes the link to Connecting.
C7_OneConnectPerDisconnected ==
    [][/\ (WifiHandles("WIFI_EVENT_STA_DISCONNECTED") /\ linkStatus = "Down"
              /\ ~LinkUp)
            => (connectReqs' = 1 /\ linkStatus' = "Connecting" /\ ~LinkUp')
       /\ (wifiPc = "disc_clear" /\ wifiPc' = "idle")
            => (connectReqs' = connectReqs /\ ~LinkUp')]_vars

\* a disconnected notification is being handled with LinkUp already clear
\* and its one connect request has been issued
C7_Witness ==
    /\ wifiPc = "disc_clear"
    /\ ~LinkUp
    /\ connectReqs = 1
    /\ linkStatus = "Connecting"

\* C8: from startup, if the stack delivers address-acquired, the transport
\* reports the session established and no failure event happens, then
\* LinkUp is eventually set, SessionUp is eventually set and the publish
\* task eventually passes its wait and calls readDHT().
C8_StartupReachesRead ==
    ([]~failed /\ <>(linkStatus = "Up") /\ <>(sessionStatus = "Open"))
        => (<>LinkUp /\ <>SessionUp /\ <>(dhtPc = "error_handler"))

\* no failure has happened, both flags are set and readDHT() has returned
C8_Witness ==
    /\ ~failed
    /\ LinkUp /\ SessionUp
    /\ dhtPc = "error_handler"

\* C9: no abort or terminal state is reachable, whatever fails.
C9_NeverAborts == ~aborted

\* C10: if the link is eventually up for good and every reissued establish
\* request is answered with an established event, then after every session
\* closed event SessionUp is eventually set again and the publish task
\* afterwards runs another read-and-publish cycle.
C10_SessionRecovers ==
    (/\ <>[](linkStatus = "Up")
     /\ [](mqttPc = "disc_reconnect" => <>(sessionStatus = "Open")))
        => [](mqttPc = "disc_clear"
                => <>(SessionUp /\ <>(dhtPc = "read" /\ <>(dhtPc = "sleep"))))

\* after a session loss the session is Open again with SessionUp set, and
\* the publish task has completed a cycle
C10_Witness ==
    /\ mqttEv = "MQTT_EVENT_CONNECTED"
    /\ failed
    /\ closedLink # "none"
    /\ reconnectReqs = 0
    /\ SessionUp /\ sessionStatus = "Open"
    /\ dhtPc = "sleep"

----------------------------------------------------------------------------
\* C11: when event_handler returns from a disconnected notification, in
\* any link state, LinkUp is clear and one connect request has been issued;
\* and if the link is eventually up with no further disconnect, LinkUp is
\* eventually set and stays set, after any number of earlier disconnects.
C11_LinkRecovers ==
    /\ [][(wifiPc = "disc_clear" /\ wifiPc' = "idle")
            => (~LinkUp' /\ connectReqs' = 1)]_vars
    /\ (<>[](linkStatus = "Up")) => <>[]LinkUp

\* C12: when the handler returns from a session error event, SessionUp is
\* clear and the reconnect request of the closed-event path has been issued.
C12_ErrorHandledAsClosed ==
    [][(mqttPc = "logged" /\ mqttEv = "MQTT_EVENT_ERROR" /\ mqttPc' # mqttPc)
          => (~SessionUp' /\ reconnectReqs' = 1)]_vars

\* C13: the reconnect request of the closed-event path is never issued in
\* a state where LinkUp is clear.
C13_ReconnectOnlyWhileLinkUp ==
    [][(mqttPc = "disc_reconnect" /\ mqttPc' # mqttPc) => LinkUp]_vars

\* C14: the established event sets SessionUp only in states where the link
\* is Up and LinkUp is set.
C14_OpenOnlyWhileLinkUp ==
    [][(mqttPc = "connected_set" /\ mqttPc' # mqttPc)
          => (LinkUp /\ linkStatus = "Up")]_vars

\* C15: whenever the publish task is about to read the sensor again, it
\* has slept the full cycle interval since its previous read, and that
\* interval is longer than the minimum spacing of the sensor.
C15_SleepBetweenReads ==
    (dhtPc = "read" /\ readRet # "none")
        => (sleptMs >= CYCLE_DELAY_MS /\ sleptMs > DHT_MIN_INTERVAL_MS)

\* the publish task is about to read for the second time, after a failed
\* read and a wait that blocked
C15_Witness ==
    /\ dhtPc = "read"
    /\ readRet = "DHT_TIMEOUT_ERROR"
    /\ failed
    /\ sleptMs = CYCLE_DELAY_MS

\* C16: only event_handler changes LinkUp and it never changes SessionUp;
\* only mqtt_event_handler changes SessionUp and it never changes LinkUp;
\* DHT_task changes neither flag.
C16_SingleWriter ==
    [][/\ (LinkUp' # LinkUp) => event_handler
       /\ (SessionUp' # SessionUp) => mqtt_event_handler
       /\ event_handler => (SessionUp' = SessionUp)
       /\ mqtt_event_handler => (LinkUp' = LinkUp)
       /\ DHT_task => (event_group_bits' = event_group_bits)]_vars

\* both handlers have written their flag (SessionUp set and cleared again,
\* LinkUp set) and the publish task has run a cycle
C16_Witness ==
    /\ established /\ ~SessionUp
    /\ LinkUp
    /\ dhtPc = "sleep"

\* C17: handling a data, published, subscribed, unsubscribed or
\* unrecognised event leaves the session status and both flags unchanged
\* and issues no reconnect request.
C17_LoggedEventsChangeNothing ==
    [][(mqttPc = "logged" /\ mqttPc' # mqttPc
          /\ mqttEv \in { "MQTT_EVENT_DATA", "MQTT_EVENT_PUBLISHED",
                          "MQTT_EVENT_SUBSCRIBED", "MQTT_EVENT_UNSUBSCRIBED",
                          "MQTT_EVENT_OTHER" })
          => /\ event_group_bits' = event_group_bits
             /\ sessionStatus' = sessionStatus
             /\ reconnectReqs' = 0
             /\ mqttPc' = "idle"]_vars

\* a subscribed event has been handled in an open session
C17_Witness ==
    /\ mqttEv = "MQTT_EVENT_SUBSCRIBED"
    /\ mqttPc = "idle"
    /\ lastTopic = TOPIC_QOS0
    /\ sessionStatus = "Open" /\ SessionUp /\ LinkUp

\* C18: the two waits change no flag, neither at the call nor when the
\* waiter is released, and a waiter that has passed leaves the flag it
\* waited for set.
C18_WaitKeepsFlags ==
    [][/\ (dhtPc = "wait" /\ dhtPc' # dhtPc)
            => event_group_bits' = event_group_bits
       /\ (mqttPc = "disc_wait" /\ mqttPc' # mqttPc)
            => event_group_bits' = event_group_bits
       /\ (dhtPc \in { "wait", "blocked" } /\ dhtPc' = "read") => SessionUp'
       /\ (mqttPc \in { "disc_wait", "disc_blocked" } /\ mqttPc' = "disc_delay")
            => LinkUp']_vars

\* both waiters have passed their wait and both flags are still set
C18_Witness ==
    /\ dhtPc = "read"
    /\ mqttPc = "disc_delay"
    /\ LinkUp

\* C19: from the clearing of SessionUp until the reconnect request is
\* issued SessionUp stays clear, and the publish task does not pass its
\* wait.
C19_ClearDuringClosedPath ==
    /\ [](mqttPc \in { "disc_wait", "disc_blocked", "disc_delay",
                       "disc_reconnect" } => ~SessionUp)
    /\ [][(mqttPc \in { "disc_wait", "disc_blocked", "disc_delay",
                        "disc_reconnect" })
            => ~(dhtPc \in { "wait", "blocked" } /\ dhtPc' = "read")]_vars

\* the handler is in the cooldown of the closed-event path and the publish
\* task is blocked in its wait
C19_Witness ==
    /\ mqttPc = "disc_delay"
    /\ established
    /\ dhtPc = "blocked"
    /\ ~SessionUp

\* C20: both flags are clear at startup, and before the first established
\* event has been handled the publish task has passed no wait, read
\* nothing and published nothing.
C20_NothingBeforeEstablished ==
    /\ mainPc = "wifi_init" => event_group_bits = {}
    /\ ~established
          => /\ dhtPc \in { "notcreated", "wait", "blocked" }
             /\ readRet = "none"
             /\ cyclePubs = 0
             /\ lastTopic \notin { MQTT_PUB_HUM, MQTT_PUB_TEMP }

\* the link is up and its flag set, no established event has been handled
\* yet, and the publish task is blocked in its first wait
C20_Witness ==
    /\ ~established
    /\ LinkUp
    /\ dhtPc = "blocked"

====
